---- MODULE Spec2Model ----
(***************************************************************************)
(* Tool-schema synchronisation (common/frontend_tools.ts, the generator    *)
(* scripts/generate_frontend_tools_python.js, the wizard                   *)
(* scripts/tool_schema_wizard.js) and client-side tool-call dispatch       *)
(* (ui/app/page.tsx, ConfirmationModal).                                   *)
(*                                                                         *)
(* Text files are modelled by what the scripts' regular expressions see in *)
(* them: the enum entries, the schema functions in file order, the calls   *)
(* listed in getAllFrontendToolSchemas.  A JSON-schema node is a record of *)
(* uniform shape; "type" is a sequence so that a union type is a sequence  *)
(* of more than one name.                                                  *)
(***************************************************************************)
EXTENDS Integers, Sequences, FiniteSets, TLC

VARIABLES
  tsFile,       \* common/frontend_tools.ts
  pyFile,       \* common/frontend_tools.py (the generated artifact)
  lastExit,     \* exit code of the latest generator process, -1 before any
  tsRead,       \* the authoring file as the latest generator process saw it
  pyBefore,     \* the artifact as it was when the latest generator process started
  lastAdded,    \* enum name of the tool the latest completed wizard/hand addition added
  handEdits,    \* number of edits made by hand to frontend_tools.ts
  messages,     \* useChat: the chat messages, each with its parts
  status,       \* useChat: ready | submitted | streaming | error
  sent,         \* the addToolResult calls made so far, in order
  toolInvocation, \* ConfirmationModal: its toolInvocation prop
  mounted,      \* ConfirmationModal: whether the component is mounted
  selectedValue,  \* ConfirmationModal: useState, "null" or "others"
  otherText,    \* ConfirmationModal: useState, the free-text input
  threw,        \* ConfirmationModal: a handler ended with an uncaught TypeError
  toolInfoCards, \* Page: useState, the tool info cards
  error,        \* Page: useState, "null" or the Error that onError stored
  image_url,    \* ProductCard: the product.image_url prop
  imageState,   \* ProductCard: useState, isValid / isLoadable / isLoading / error
  validations,  \* ProductCard: the validateImage calls awaiting validateImageUrl
  script        \* start_server.sh: position, DOCKER_CONTAINER, $? of the generator step

genVars == <<tsFile, pyFile, lastExit, tsRead, pyBefore, lastAdded, handEdits>>

pageVars == <<messages, status, error>>

modalVars == <<toolInvocation, mounted, selectedValue, otherText, threw>>

cardVars == <<toolInfoCards>>

imgVars == <<image_url, imageState, validations>>

srvVars == <<script>>

uiVars == <<pageVars, sent, modalVars, cardVars, imgVars, srvVars>>

vars == <<genVars, uiVars>>

----------------------------------------------------------------------------
(* Bounds *)

MaxFuncs == 6
MaxHandEdits == 2

----------------------------------------------------------------------------
(* JSON-schema nodes *)

Node(t, d, e, f, p, r, i) ==
  [type |-> t, description |-> d, enum |-> e, format |-> f,
   properties |-> p, required |-> r, items |-> i]

Prop(k, s) == [key |-> k, schema |-> s]

Leaf(t, d) == Node(<<t>>, d, <<>>, "", <<>>, <<>>, <<>>)

NullSchema == Node(<<>>, "", <<>>, "", <<>>, <<>>, <<>>)

----------------------------------------------------------------------------
(* The authoring catalogue as committed: common/frontend_tools.ts *)

ButtonItemSchema ==
  Node(<<"object">>, "", <<>>, "",
       << Prop("label", Leaf("string", "The text to display on the button.")),
          Prop("value", Node(<<"string", "boolean", "number">>,
                             "The value to return when this button is clicked.",
                             <<>>, "", <<>>, <<>>, <<>>)),
          Prop("style", Node(<<"string">>,
                             "The visual style of the button. Primary is highlighted, secondary is less prominent, danger is for destructive actions.",
                             <<"primary", "secondary", "danger">>, "", <<>>, <<>>, <<>>)) >>,
       <<"label", "value">>, <<>>)

AskUserConfirmationParameters ==
  Node(<<"object">>, "", <<>>, "",
       << Prop("title", Leaf("string", "Title / header of the confirmation modal.")),
          Prop("question_text", Leaf("string", "The question to present to the user for confirmation.")),
          Prop("confirmation_context", Leaf("string", "Optional additional context or details to display with the confirmation question.")),
          Prop("buttons", Node(<<"array">>,
                               "Array of button configurations to display in the modal. If not provided, default 'Confirm' and 'Cancel' buttons will be shown.",
                               <<>>, "", <<>>, <<>>, <<ButtonItemSchema>>)) >>,
       <<"question_text">>, <<>>)

DisplayProductCardParameters ==
  Node(<<"object">>, "", <<>>, "",
       << Prop("product_id", Leaf("string", "The unique ID of the product.")),
          Prop("product_name", Leaf("string", "Name of the product.")),
          Prop("product_description", Leaf("string", "Description of the product.")),
          Prop("price", Leaf("number", "Price of the product.")),
          Prop("image_url", Node(<<"string">>, "URL of the product image.",
                                 <<>>, "uri", <<>>, <<>>, <<>>)) >>,
       <<"product_name", "price">>, <<>>)

DisplayToolInfoParameters ==
  Node(<<"object">>, "", <<>>, "",
       << Prop("tool_name", Leaf("string", "The name of the tool to display.")),
          Prop("tool_description", Leaf("string", "Detailed description of the tool's functionality.")),
          Prop("tool_id", Leaf("string", "Optional unique identifier for the tool call.")),
          Prop("tool_parameters", Leaf("object", "Parameters passed to the tool.")),
          Prop("tool_status", Node(<<"string">>,
                                   "Current execution status of the tool. 'pending' shows a spinner with gray badge, 'executing' shows a spinner with blue badge, 'completed' shows a green badge, 'failed' shows a red badge.",
                                   <<"pending", "executing", "completed", "failed">>, "", <<>>, <<>>, <<>>)),
          Prop("tool_output", Leaf("object", "Output or results from the tool execution. Only shown when the user expands the card.")),
          Prop("tool_error", Leaf("string", "Error message if the tool execution failed. Only shown when the user expands the card.")) >>,
       <<"tool_name", "tool_description", "tool_status">>, <<>>)

ChangeBackgroundColorParameters ==
  Node(<<"object">>, "", <<>>, "",
       << Prop("colorHexCode", Leaf("string", "The hex code of the color to which the background will be set, like $FFC0CB")) >>,
       <<"colorHexCode">>, <<>>)

EnumEntry(n, v) == [name |-> n, value |-> v]

\* export enum FrontendToolName { ... }
FrontendToolName ==
  << EnumEntry("ASK_USER_QUESTION_CONFIRMATION_APPROVAL_INPUT", "ask_user_question_confirmation_approval_input"),
     EnumEntry("DISPLAY_PRODUCT_CARD", "display_product_card"),
     EnumEntry("DISPLAY_TOOL_INFO", "display_tool_info"),
     EnumEntry("CHANGE_BACKGROUND_COLOR", "change_background_color") >>

SchemaFunc(f, e, d, p) == [funcName |-> f, enumName |-> e, description |-> d, parameters |-> p]

getAskUserConfirmationSchema ==
  SchemaFunc("getAskUserConfirmationSchema", "ASK_USER_QUESTION_CONFIRMATION_APPROVAL_INPUT",
             "Use this tool for questions, confirmation or approval kind of interaction with user in UI. The UI will shows a modal with customizable buttons for user to select. If asking question, always have 'Others' option in addition to applicable ones.",
             AskUserConfirmationParameters)

getDisplayProductCardSchema ==
  SchemaFunc("getDisplayProductCardSchema", "DISPLAY_PRODUCT_CARD",
             "Use this tool to show the product details in UI whenever user is asking about any product or want to see product details.",
             DisplayProductCardParameters)

getDisplayToolInfoSchema ==
  SchemaFunc("getDisplayToolInfoSchema", "DISPLAY_TOOL_INFO",
             "Displays detailed information about backend tool calls in the UI, including execution status and results. Shows a spinner for in-progress tools and allows expanding completed tools to view details.",
             DisplayToolInfoParameters)

getCHANGE_BACKGROUND_COLORSchema ==
  SchemaFunc("getCHANGE_BACKGROUND_COLORSchema", "CHANGE_BACKGROUND_COLOR",
             "This will set / change the background color in frontend to the given hex color code like #FFC0CB",
             ChangeBackgroundColorParameters)

\* The whole file.  enumOk / paramsTypeOk / getAllOk say whether the scripts'
\* regular expressions for the enum block, for "export type FrontendToolParams ="
\* and for getAllFrontendToolSchemas match.
CommittedTsFile ==
  [exists |-> TRUE,
   enumOk |-> TRUE,
   enum |-> FrontendToolName,
   interfaces |-> <<"ButtonConfig", "AskUserConfirmationParams", "DisplayProductCardParams",
                    "DisplayToolInfoParams", "Change_background_colorParams">>,
   funcs |-> <<getAskUserConfirmationSchema, getDisplayProductCardSchema,
               getDisplayToolInfoSchema, getCHANGE_BACKGROUND_COLORSchema>>,
   paramsTypeOk |-> TRUE,
   getAllOk |-> TRUE,
   getAll |-> <<"getAskUserConfirmationSchema", "getDisplayProductCardSchema",
                "getDisplayToolInfoSchema", "getCHANGE_BACKGROUND_COLORSchema">>]

SeqToSet(q) == {q[i] : i \in DOMAIN q}

\* FrontendToolName.<enumName> evaluated in the TypeScript file: the value, or
\* undefined for a name the enum does not have.
EnumValue(ts, enumName) ==
  IF \E i \in DOMAIN ts.enum : ts.enum[i].name = enumName
  THEN (CHOOSE e \in SeqToSet(ts.enum) : e.name = enumName).value
  ELSE "undefined"

\* A file with no content (and, with exists = FALSE, no file at all).
EmptyTsContent ==
  [exists |-> TRUE, enumOk |-> FALSE, enum |-> <<>>, interfaces |-> <<>>,
   funcs |-> <<>>, paramsTypeOk |-> FALSE, getAllOk |-> FALSE, getAll |-> <<>>]

NoTsFile == [EmptyTsContent EXCEPT !.exists = FALSE]

----------------------------------------------------------------------------
(* scripts/generate_frontend_tools_python.js *)

\* The parameters the generator hardcodes per enum name.  The texts for
\* ASK_USER_CONFIRMATION, DISPLAY_TOOL_INFO and CHANGE_BACKGROUND_COLOR are
\* the same trees as in frontend_tools.ts; DISPLAY_PRODUCT_CARD is its own.
HardcodedProductCardParameters ==
  Node(<<"object">>, "", <<>>, "",
       << Prop("product_id", Leaf("string", "The unique ID of the product.")),
          Prop("product_name", Leaf("string", "Name of the product.")),
          Prop("price", Leaf("number", "Price of the product.")),
          Prop("image_url", Node(<<"string">>, "URL of the product image.",
                                 <<>>, "uri", <<>>, <<>>, <<>>)) >>,
       <<"product_id", "product_name", "price">>, <<>>)

HardcodedParameters(enumName) ==
  CASE enumName = "ASK_USER_CONFIRMATION" -> AskUserConfirmationParameters
    [] enumName = "DISPLAY_PRODUCT_CARD" -> HardcodedProductCardParameters
    [] enumName = "DISPLAY_TOOL_INFO" -> DisplayToolInfoParameters
    [] enumName = "CHANGE_BACKGROUND_COLOR" -> ChangeBackgroundColorParameters
    [] OTHER -> NullSchema

\* String.prototype.toLowerCase on the enum names that occur.
toLowerCase(s) ==
  CASE s = "ASK_USER_QUESTION_CONFIRMATION_APPROVAL_INPUT" -> "ask_user_question_confirmation_approval_input"
    [] s = "DISPLAY_PRODUCT_CARD" -> "display_product_card"
    [] s = "DISPLAY_TOOL_INFO" -> "display_tool_info"
    [] s = "CHANGE_BACKGROUND_COLOR" -> "change_background_color"
    [] s = "SHOW_CHART" -> "show_chart"
    [] s = "ASK_USER_CONFIRMATION" -> "ask_user_confirmation"
    [] OTHER -> s

\* funcName.substring(3, length - 6), ([a-z])([A-Z]) -> $1_$2, toLowerCase,
\* on the function names that occur.
snakeName(funcName) ==
  CASE funcName = "getAskUserConfirmationSchema" -> "ask_user_confirmation"
    [] funcName = "getDisplayProductCardSchema" -> "display_product_card"
    [] funcName = "getDisplayToolInfoSchema" -> "display_tool_info"
    [] funcName = "getCHANGE_BACKGROUND_COLORSchema" -> "change_background_color"
    [] funcName = "getShowChartSchema" -> "show_chart"
    [] funcName = "getProductCardSchema" -> "product_card"
    [] funcName = "getSHOW_CHARTSchema" -> "show_chart"
    [] funcName = "getDISPLAY_PRODUCT_CARDSchema" -> "display_product_card"
    [] funcName = "getASK_USER_CONFIRMATIONSchema" -> "ask_user_confirmation"
    [] OTHER -> funcName

\* The enum block: one {name, value} per matching line, none when the enum
\* regular expression does not match.
toolNames(ts) == IF ts.enumOk THEN ts.enum ELSE <<>>

\* funcDefRegex.exec(tsContent): the first definition of that name in the file.
FuncDefIndex(ts, fullFuncName) ==
  IF \E i \in DOMAIN ts.funcs : ts.funcs[i].funcName = fullFuncName
  THEN CHOOSE i \in DOMAIN ts.funcs :
         /\ ts.funcs[i].funcName = fullFuncName
         /\ \A j \in 1..(i - 1) : ts.funcs[j].funcName # fullFuncName
  ELSE 0

\* One iteration of the loop over the calls of getAllFrontendToolSchemas:
\* the entry pushed to schemaFunctions, or nothing.
ResolveCall(ts, call) ==
  LET i == FuncDefIndex(ts, call) IN
  IF i = 0 THEN <<>>
  ELSE LET f == ts.funcs[i]
           parameters == HardcodedParameters(f.enumName)
       IN IF parameters # NullSchema
          THEN << [funcName |-> call, enumName |-> f.enumName,
                   description |-> f.description, parameters |-> parameters] >>
          ELSE <<>>

RECURSIVE ResolveCalls(_, _)
ResolveCalls(ts, calls) ==
  IF calls = <<>> THEN <<>>
  ELSE ResolveCall(ts, Head(calls)) \o ResolveCalls(ts, Tail(calls))

\* Variant: the calls visited enum entry by enum entry instead of in the order
\* getAllFrontendToolSchemas lists them.
RECURSIVE CallsByEnum(_, _)
CallsByEnum(ts, enum) ==
  IF enum = <<>> THEN <<>>
  ELSE LET OfHead(call) ==
             /\ FuncDefIndex(ts, call) # 0
             /\ ts.funcs[FuncDefIndex(ts, call)].enumName = Head(enum).name
       IN SelectSeq(ts.getAll, OfHead) \o CallsByEnum(ts, Tail(enum))

schemaFunctionsInEnumOrder(ts) ==
  IF ts.getAllOk THEN ResolveCalls(ts, CallsByEnum(ts, toolNames(ts))) ELSE <<>>

schemaFunctions(ts) == IF ts.getAllOk THEN ResolveCalls(ts, ts.getAll) ELSE <<>>

\* The "def get_<snakeName>_schema()" unit emitted for one schema function.
PyDef(func) ==
  [defName |-> "get_" \o snakeName(func.funcName) \o "_schema",
   enumName |-> func.enumName,
   description |-> func.description,
   parameters |-> func.parameters]

\* The entries of the list returned by get_all_frontend_tool_schemas.
schemaNames(funcs) ==
  [i \in DOMAIN funcs |-> "get_" \o toLowerCase(funcs[i].enumName) \o "_schema"]

PyHeader == "GENERATED FILE - DO NOT EDIT DIRECTLY"

generatePythonCode(ts) ==
  LET funcs == schemaFunctions(ts) IN
  [exists |-> TRUE,
   header |-> PyHeader,
   enum |-> toolNames(ts),
   defs |-> [i \in DOMAIN funcs |-> PyDef(funcs[i])],
   accessor |-> schemaNames(funcs)]

NoPyFile == [exists |-> FALSE, header |-> "", enum |-> <<>>, defs |-> <<>>, accessor |-> <<>>]

\* Variant: the text appended to what the file already holds.
appendFileSync(old, new) ==
  IF old.exists
  THEN [new EXCEPT !.enum = old.enum \o @, !.defs = old.defs \o @,
                   !.accessor = old.accessor \o @]
  ELSE new

\* fs.writeFileSync(pythonFilePath, pythonCode): the file becomes the new text.
writeFileSync(old, new) == new

\* One run of the generator process: reading a missing frontend_tools.ts
\* throws at load (exit code 1, nothing written); otherwise the artifact is
\* written and the process exits 0.
GeneratorProcess(ts, py) ==
  IF ~ts.exists
  THEN [exit |-> 1, py |-> py]
  ELSE [exit |-> 0, py |-> writeFileSync(py, generatePythonCode(ts))]

GeneratorEffect(ts) ==
  LET run == GeneratorProcess(ts, pyFile) IN
  /\ pyFile' = run.py
  /\ lastExit' = run.exit
  /\ tsRead' = ts
  /\ pyBefore' = pyFile

\* node scripts/generate_frontend_tools_python.js
GeneratorRun ==
  /\ GeneratorEffect(tsFile)
  /\ UNCHANGED <<tsFile, lastAdded, handEdits, uiVars>>

----------------------------------------------------------------------------
(* scripts/tool_schema_wizard.js *)

\* What the user may type at the prompts.
ToolDisplayNames == {"Show Chart", "Display Product Card", "Ask User Confirmation"}

ToolDescriptions == {"Tool added with the wizard"}

WizardParam(n, t, j, d, r) ==
  [name |-> n, type |-> t, jsonType |-> j, description |-> d, required |-> r]

WizardParameterLists ==
  { << WizardParam("chartType", "string", <<"string">>, "Kind of chart", TRUE) >>,
    << WizardParam("chartType", "string", <<"string">>, "Kind of chart", TRUE),
       WizardParam("limit", "string | number", <<"string", "number">>, "Upper limit", FALSE) >> }

\* ([a-z])([A-Z]) -> $1_$2, [\s-]+ -> _, toLowerCase, on the names above.
toSnakeCase(str) ==
  CASE str = "Show Chart" -> "show_chart"
    [] str = "Display Product Card" -> "display_product_card"
    [] str = "Ask User Confirmation" -> "ask_user_confirmation"
    [] OTHER -> str

\* ([a-z])([A-Z]) -> $1_$2, [\s-]+ -> _, toUpperCase, on the names above.
toUpperSnakeCase(str) ==
  CASE str = "Show Chart" -> "SHOW_CHART"
    [] str = "Display Product Card" -> "DISPLAY_PRODUCT_CARD"
    [] str = "Ask User Confirmation" -> "ASK_USER_CONFIRMATION"
    [] OTHER -> str

\* toolName.charAt(0).toUpperCase() + toolName.slice(1) + "Params"
interfaceName(toolName) ==
  CASE toolName = "show_chart" -> "Show_chartParams"
    [] toolName = "display_product_card" -> "Display_product_cardParams"
    [] toolName = "ask_user_confirmation" -> "Ask_user_confirmationParams"
    [] OTHER -> toolName \o "Params"

\* Readable content and the enum entries of frontend_tools.ts; a read error
\* is caught and gives no tool names and empty content.
parseTypeScriptFile ==
  IF tsFile.exists
  THEN [toolNames |-> toolNames(tsFile), content |-> tsFile]
  ELSE [toolNames |-> <<>>, content |-> EmptyTsContent]

RECURSIVE RequiredNames(_)
RequiredNames(parameters) ==
  IF parameters = <<>> THEN <<>>
  ELSE (IF Head(parameters).required THEN <<Head(parameters).name>> ELSE <<>>)
       \o RequiredNames(Tail(parameters))

generateJsonSchema(parameters) ==
  Node(<<"object">>, "", <<>>, "",
       [i \in DOMAIN parameters |->
          Prop(parameters[i].name,
               Node(parameters[i].jsonType, parameters[i].description,
                    <<>>, "", <<>>, <<>>, <<>>))],
       RequiredNames(parameters), <<>>)

generateSchemaFunction(enumName, description, parameters) ==
  SchemaFunc("get" \o enumName \o "Schema", enumName, description,
             generateJsonSchema(parameters))

updateGetAllFunction(content, enumName) ==
  IF content.getAllOk
  THEN [content EXCEPT !.getAll = Append(@, "get" \o enumName \o "Schema")]
  ELSE content

\* The text addNewTool writes back to frontend_tools.ts.
UpdatedContent(parsed, toolName, enumName, description, parameters) ==
  LET content == parsed.content
      inEnum == \E i \in DOMAIN parsed.toolNames : parsed.toolNames[i].name = enumName
      withEnum ==
        IF ~inEnum /\ content.enumOk
        THEN [content EXCEPT !.enum = Append(@, EnumEntry(enumName, toolName))]
        ELSE content
      withInterface ==
        IF withEnum.paramsTypeOk
        THEN [withEnum EXCEPT !.interfaces = Append(@, interfaceName(toolName))]
        ELSE withEnum
      withFunction ==
        IF withInterface.getAllOk
        THEN [withInterface EXCEPT
                !.funcs = Append(@, generateSchemaFunction(enumName, description, parameters))]
        ELSE withInterface
  IN updateGetAllFunction(withFunction, enumName)

\* addNewTool, with the answers given at its prompts; it ends by running the
\* generator process (execSync), whose failure it catches.
AddNewTool(toolDisplayName, description, parameters, overwrite) ==
  LET toolName == toSnakeCase(toolDisplayName)
      enumName == toUpperSnakeCase(toolDisplayName)
      parsed == parseTypeScriptFile
      already == \E i \in DOMAIN parsed.toolNames :
                    \/ parsed.toolNames[i].name = enumName
                    \/ parsed.toolNames[i].value = toolName
      written == UpdatedContent(parsed, toolName, enumName, description, parameters)
  IN
  /\ Len(tsFile.funcs) < MaxFuncs
  /\ IF already /\ ~overwrite
     THEN UNCHANGED vars
     ELSE /\ tsFile' = written
          /\ GeneratorEffect(written)
          /\ lastAdded' = IF already THEN lastAdded ELSE enumName
          /\ UNCHANGED <<handEdits, uiVars>>

Wizard ==
  \E n \in ToolDisplayNames, d \in ToolDescriptions,
     p \in WizardParameterLists, o \in BOOLEAN :
    AddNewTool(n, d, p, o)

----------------------------------------------------------------------------
(* Edits made by hand to common/frontend_tools.ts (README, "Alternatively,
   you can manually") *)

ShowChartParameters ==
  Node(<<"object">>, "", <<>>, "",
       << Prop("chartType", Node(<<"string">>, "Kind of chart",
                                 <<"bar", "line">>, "", <<>>, <<>>, <<>>)) >>,
       <<"chartType">>, <<>>)

\* A tool definition written by hand in the style of the committed ones.
HandAddTool ==
  /\ handEdits < MaxHandEdits
  /\ Len(tsFile.funcs) < MaxFuncs
  /\ tsFile.exists /\ tsFile.enumOk /\ tsFile.getAllOk
  /\ \A i \in DOMAIN tsFile.enum : tsFile.enum[i].name # "SHOW_CHART"
  /\ tsFile' = [tsFile EXCEPT
                  !.enum = Append(@, EnumEntry("SHOW_CHART", "show_chart")),
                  !.interfaces = Append(@, "ShowChartParams"),
                  !.funcs = Append(@, SchemaFunc("getShowChartSchema", "SHOW_CHART",
                                                 "Use this tool to show a chart in UI.",
                                                 ShowChartParameters)),
                  !.getAll = Append(@, "getShowChartSchema")]
  /\ lastAdded' = "SHOW_CHART"
  /\ handEdits' = handEdits + 1
  /\ UNCHANGED <<pyFile, lastExit, tsRead, pyBefore, uiVars>>

\* The entries of getAllFrontendToolSchemas listed in another order.
HandSwapGetAll ==
  /\ handEdits < MaxHandEdits
  /\ tsFile.exists /\ tsFile.getAllOk
  /\ \E i \in 1..(Len(tsFile.getAll) - 1) :
       tsFile' = [tsFile EXCEPT !.getAll = [@ EXCEPT ![i] = tsFile.getAll[i + 1],
                                                    ![i + 1] = tsFile.getAll[i]]]
  /\ handEdits' = handEdits + 1
  /\ UNCHANGED <<pyFile, lastExit, tsRead, pyBefore, lastAdded, uiVars>>

\* A schema function given a shorter name, in its definition and in the list
\* of getAllFrontendToolSchemas.
HandRenameFunc ==
  /\ handEdits < MaxHandEdits
  /\ tsFile.exists
  /\ \E i \in DOMAIN tsFile.funcs : tsFile.funcs[i].funcName = "getDisplayProductCardSchema"
  /\ LET Renamed(name) == IF name = "getDisplayProductCardSchema"
                          THEN "getProductCardSchema" ELSE name
     IN tsFile' = [tsFile EXCEPT
                     !.funcs = [i \in DOMAIN @ |-> [@[i] EXCEPT !.funcName = Renamed(@)]],
                     !.getAll = [i \in DOMAIN @ |-> Renamed(@[i])]]
  /\ handEdits' = handEdits + 1
  /\ UNCHANGED <<pyFile, lastExit, tsRead, pyBefore, lastAdded, uiVars>>

\* The file removed.
HandDeleteTs ==
  /\ handEdits < MaxHandEdits
  /\ tsFile.exists
  /\ tsFile' = NoTsFile
  /\ handEdits' = handEdits + 1
  /\ UNCHANGED <<pyFile, lastExit, tsRead, pyBefore, lastAdded, uiVars>>

----------------------------------------------------------------------------
(* JavaScript values carried by buttons and results: string | boolean |
   number, or undefined *)

JsBool(b) == [t |-> "boolean", b |-> b, s |-> "", n |-> 0]

JsStr(s) == [t |-> "string", b |-> FALSE, s |-> s, n |-> 0]

JsNum(n) == [t |-> "number", b |-> FALSE, s |-> "", n |-> n]

JsUndefined == [t |-> "undefined", b |-> FALSE, s |-> "", n |-> 0]

\* value.toString().toLowerCase(), on the values that occur.
ToLowerString(value) ==
  CASE value.t = "boolean" -> (IF value.b THEN "true" ELSE "false")
    [] value.t = "number" -> (IF value.n = 0 THEN "0" ELSE "1")
    [] value.t = "string" ->
         (CASE value.s = "Others" -> "others"
            [] value.s = "OTHER" -> "other"
            [] value.s = "Other" -> "other"
            [] OTHER -> value.s)

\* The truthiness of a value, as || and ! take it.
Truthy(value) ==
  CASE value.t = "boolean" -> value.b
    [] value.t = "number" -> value.n # 0
    [] value.t = "string" -> value.s # ""
    [] OTHER -> FALSE

\* String.prototype.trim, on the texts that occur.
Trim(text) == IF text = "  " THEN "" ELSE text

----------------------------------------------------------------------------
(* ui/app/lib/frontend-tools.ts *)

Button(l, v, st) == [label |-> l, value |-> v, style |-> st]

getDefaultConfirmationButtons ==
  << Button("Confirm", JsBool(TRUE), "primary"),
     Button("Cancel", JsBool(FALSE), "secondary") >>

\* The args object of an invocation: buttons (undefined, or an array),
\* colorHexCode ("" when absent) and actual_tool_name (any value).
ToolArgs(d, l, c, a) ==
  [defined |-> d, list |-> l, colorHexCode |-> c, actual_tool_name |-> a]

ButtonsArg(d, l) == ToolArgs(d, l, "", JsUndefined)

ColorArg(c) == ToolArgs(FALSE, <<>>, c, JsUndefined)

ToolInfoArg(a) == ToolArgs(FALSE, <<>>, "", a)

NoButtons == ButtonsArg(FALSE, <<>>)

\* A lookup that would resolve every member name to the confirmation tool's id.
FrontendToolNameConfirmationMember(member) ==
  EnumValue(CommittedTsFile, "ASK_USER_QUESTION_CONFIRMATION_APPROVAL_INPUT")

\* FrontendToolName.<member> as the compiled enum object gives it: the value,
\* or undefined for a name the enum does not have.
FrontendToolNameMember(member) == EnumValue(CommittedTsFile, member)

----------------------------------------------------------------------------
(* ui/app/page.tsx *)

ConfirmationToolId == "ask_user_question_confirmation_approval_input"

\* Tool names the agent may send; the last is in no catalogue.
ToolNames ==
  {ConfirmationToolId, "display_tool_info", "change_background_color", "does_not_exist"}

MaxMessages == 3
MaxParts == 2
MaxInvocations == 2

TextPart ==
  [type |-> "text", toolCallId |-> 0, toolName |-> "", state |-> "",
   args |-> NoButtons, result |-> JsUndefined]

ToolPart(id, name, st, a, r) ==
  [type |-> "tool-invocation", toolCallId |-> id, toolName |-> name, state |-> st,
   args |-> a, result |-> r]

Message(r, p) == [role |-> r, parts |-> p]

\* Argument payloads the agent may send with an invocation of a tool.
PageArgs(name) ==
  CASE name = ConfirmationToolId ->
         { NoButtons,
           ButtonsArg(TRUE, << Button("Yes", JsBool(TRUE), "primary"),
                               Button("No", JsBool(FALSE), "secondary") >>) }
    [] name = "display_tool_info" ->
         { NoButtons, ToolInfoArg(JsStr("web_search")), ToolInfoArg(JsNum(1)) }
    [] name = "change_background_color" ->
         { ColorArg("#FFC0CB"), ColorArg("not-a-color") }
    [] OTHER -> { NoButtons }

lastMessage == messages[Len(messages)]

HasLastAssistantMessage ==
  Len(messages) > 0 /\ lastMessage.role = "assistant"

\* lastAssistantMessage?.parts?.filter(...).map(p => p.toolInvocation) || []
\* A filter that would keep only the calls of the confirmation tool.
pendingToolInvocationsOfConfirmationTool ==
  IF HasLastAssistantMessage
  THEN LET IsPendingConfirmation(part) ==
             /\ part.type = "tool-invocation"
             /\ part.state = "call"
             /\ part.toolName = ConfirmationToolId
       IN SelectSeq(lastMessage.parts, IsPendingConfirmation)
  ELSE <<>>

pendingToolInvocations ==
  IF HasLastAssistantMessage
  THEN LET IsPending(part) == part.type = "tool-invocation" /\ part.state = "call"
       IN SelectSeq(lastMessage.parts, IsPending)
  ELSE <<>>

isInputDisabled == status # "ready" \/ Len(pendingToolInvocations) > 0

\* InputArea: disabled={isInputDisabled} on the text input and on Send.
InputDisabledAttribute == isInputDisabled

SendDisabledAttribute == isInputDisabled

\* A render that would mount a ConfirmationModal for every pending invocation.
RenderedModalsForEveryPending == pendingToolInvocations

\* The invocations for which the page renders a ConfirmationModal.
RenderedModals ==
  LET IsConfirmation(invocation) ==
        invocation.toolName = FrontendToolNameMember("ASK_USER_CONFIRMATION")
  IN SelectSeq(pendingToolInvocations, IsConfirmation)

SendEntry(id, r, h) == [toolCallId |-> id, result |-> [confirmed |-> r], via |-> h]

\* A handleConfirm that would coerce the result to a boolean.
handleConfirmBoolean(toolCallId, result) ==
  sent' = Append(sent, SendEntry(toolCallId,
                                 JsBool(result \notin {JsBool(FALSE), JsNum(0), JsStr("")}),
                                 "handleConfirm"))

\* handleConfirm / handleCancel: addToolResult({ toolCallId, result: { confirmed } })
handleConfirm(toolCallId, result) ==
  sent' = Append(sent, SendEntry(toolCallId, result, "handleConfirm"))

handleCancel(toolCallId, result) ==
  sent' = Append(sent, SendEntry(toolCallId, result, "handleCancel"))

\* Number of tool invocations delivered so far: the next call id is one more.
RECURSIVE CountInvocations(_)
CountInvocations(msgs) ==
  IF msgs = <<>> THEN 0
  ELSE LET IsTool(part) == part.type = "tool-invocation"
       IN Len(SelectSeq(Head(msgs).parts, IsTool)) + CountInvocations(Tail(msgs))

\* The user submits the form of InputArea (enabled only when the input is).
HandleSubmit ==
  /\ ~isInputDisabled
  /\ Len(messages) < MaxMessages
  /\ messages' = Append(messages, Message("user", <<TextPart>>))
  /\ status' = "submitted"
  /\ UNCHANGED <<genVars, imgVars, srvVars, error, sent, modalVars, cardVars>>

\* The transport starts an assistant message.
ReceiveAssistantMessage ==
  /\ status = "submitted"
  /\ Len(messages) < MaxMessages
  /\ messages' = Append(messages, Message("assistant", <<>>))
  /\ status' = "streaming"
  /\ UNCHANGED <<genVars, imgVars, srvVars, error, sent, modalVars, cardVars>>

\* The transport adds a part to the assistant message being streamed.
ReceivePart ==
  /\ status = "streaming"
  /\ HasLastAssistantMessage
  /\ Len(lastMessage.parts) < MaxParts
  /\ \E part \in {TextPart}
                 \cup UNION {{ToolPart(CountInvocations(messages) + 1, name, st, a, JsUndefined) :
                                st \in {"partial-call", "call"}, a \in PageArgs(name)} :
                             name \in ToolNames} :
       /\ part.type = "tool-invocation" => CountInvocations(messages) < MaxInvocations
       /\ messages' = [messages EXCEPT ![Len(messages)].parts = Append(@, part)]
  /\ UNCHANGED <<genVars, imgVars, srvVars, status, error, sent, modalVars, cardVars>>

\* The backend sends a tool call under a toolCallId it has used before, and the
\* transport adds it as a part of the assistant message being streamed.
ReceivePartWithUsedId ==
  /\ status = "streaming"
  /\ HasLastAssistantMessage
  /\ Len(lastMessage.parts) < MaxParts
  /\ CountInvocations(messages) < MaxInvocations
  /\ \E id \in 1..CountInvocations(messages) :
       \E name \in ToolNames :
         \E st \in {"partial-call", "call"} :
           \E a \in PageArgs(name) :
             messages' = [messages EXCEPT ![Len(messages)].parts =
                            Append(@, ToolPart(id, name, st, a, JsUndefined))]
  /\ UNCHANGED <<genVars, imgVars, srvVars, status, error, sent, modalVars, cardVars>>

\* The transport replaces an invocation by its next lifecycle state; the
\* result of a call comes from the backend.
ReceiveUpdate ==
  /\ status = "streaming"
  /\ HasLastAssistantMessage
  /\ \E i \in DOMAIN lastMessage.parts :
       LET part == lastMessage.parts[i] IN
       /\ part.type = "tool-invocation"
       /\ part.state \in {"partial-call", "call"}
       /\ messages' = [messages EXCEPT ![Len(messages)].parts[i] =
                         IF part.state = "partial-call"
                         THEN [part EXCEPT !.state = "call"]
                         ELSE [part EXCEPT !.state = "result", !.result = JsStr("done")]]
  /\ UNCHANGED <<genVars, imgVars, srvVars, status, error, sent, modalVars, cardVars>>

\* The response ends.
FinishResponse ==
  /\ status = "streaming"
  /\ status' = "ready"
  /\ UNCHANGED <<genVars, imgVars, srvVars, messages, error, sent, modalVars, cardVars>>

\* The request fails: useChat sets its status and calls onError, which stores
\* the error with setError.
ChatError ==
  /\ status \in {"submitted", "streaming"}
  /\ status' = "error"
  /\ error' = "Error"
  /\ UNCHANGED <<genVars, imgVars, srvVars, messages, sent, modalVars, cardVars>>

----------------------------------------------------------------------------
(* ui/app/page.tsx: the effect that keeps the tool info cards *)

HasToolInParts(m) ==
  \E i \in DOMAIN m.parts : m.parts[i].type = "tool-invocation"

\* A card that would carry the result field whatever the state.
ToolInfoWithResultAlways(tool) ==
  [id |-> tool.toolCallId,
   tool_name |-> tool.toolName,
   tool_description |-> tool.toolName \o " tool call",
   tool_parameters |-> tool.args,
   tool_status |-> CASE tool.state = "call" -> "executing"
                     [] tool.state = "result" -> "completed"
                     [] tool.state = "partial-call" -> "pending"
                     [] OTHER -> "failed",
   tool_output |-> tool.result,
   tool_id |-> tool.toolCallId]

\* The card the effect builds from one tool invocation.
ToolInfo(tool) ==
  [id |-> tool.toolCallId,
   tool_name |-> tool.toolName,
   tool_description |-> tool.toolName \o " tool call",
   tool_parameters |-> tool.args,
   tool_status |-> CASE tool.state = "call" -> "executing"
                     [] tool.state = "result" -> "completed"
                     [] tool.state = "partial-call" -> "pending"
                     [] OTHER -> "failed",
   tool_output |-> IF tool.state = "result" THEN tool.result ELSE JsUndefined,
   tool_id |-> tool.toolCallId]

\* messagesWithTools.flatMap(...) over a sequence of messages.
RECURSIVE FlatMapToolInfo(_)
FlatMapToolInfo(msgs) ==
  IF msgs = <<>> THEN <<>>
  ELSE LET IsTool(part) == part.type = "tool-invocation"
           tools == SelectSeq(Head(msgs).parts, IsTool)
       IN [i \in DOMAIN tools |-> ToolInfo(tools[i])] \o FlatMapToolInfo(Tail(msgs))

allToolInvocations ==
  LET WithTools(m) == m.role = "assistant" /\ HasToolInParts(m)
  IN FlatMapToolInfo(SelectSeq(messages, WithTools))

\* allToolInvocations.find(tool => tool.id === id): the first match.
FindTool(all, id) ==
  all[CHOOSE i \in DOMAIN all :
        all[i].id = id /\ \A j \in 1..(i - 1) : all[j].id # id]

\* An updater that would append every invocation, known or not.
setToolInfoCardsAppendAll(prev, all) ==
  [i \in DOMAIN prev |->
     IF \E j \in DOMAIN all : all[j].id = prev[i].id
     THEN FindTool(all, prev[i].id) ELSE prev[i]] \o all

\* An updater that would keep the cards it has as they are.
setToolInfoCardsKeepExisting(prev, all) ==
  LET existingIds == {prev[i].id : i \in DOMAIN prev}
      IsNew(tool) == tool.id \notin existingIds
  IN prev \o SelectSeq(all, IsNew)

\* The updater passed to setToolInfoCards: result of prev and allToolInvocations.
setToolInfoCards(prev, all) ==
  LET existingIds == {prev[i].id : i \in DOMAIN prev}
      IsNew(tool) == tool.id \notin existingIds
      uniqueNewTools == SelectSeq(all, IsNew)
      updatedExisting ==
        [i \in DOMAIN prev |->
           IF \E j \in DOMAIN all : all[j].id = prev[i].id
           THEN FindTool(all, prev[i].id) ELSE prev[i]]
  IN updatedExisting \o uniqueNewTools

\* useEffect(..., [messages]): runs after a render in which messages changed.
ProcessToolInvocations ==
  /\ IF Len(allToolInvocations) > 0
     THEN toolInfoCards' = setToolInfoCards(toolInfoCards, allToolInvocations)
     ELSE UNCHANGED toolInfoCards
  /\ UNCHANGED <<genVars, imgVars, srvVars, pageVars, sent, modalVars>>

----------------------------------------------------------------------------
(* ui/app/components/ChatMessage.tsx *)

isTextPart(part) == part.type = "text"

isToolInvocationPart(part) == part.type = "tool-invocation"

isToolOfType(invocation, toolName) == invocation.toolName = toolName

isChangeBackgroundColor(invocation) ==
  isToolOfType(invocation, FrontendToolNameMember("CHANGE_BACKGROUND_COLOR"))

\* The switch of createToolInfoCard on toolInvocation.state.
\* A mapping without the default branch of the switch.
toolStatusUnknownAsPending(state) ==
  CASE state = "call" -> "executing"
    [] state = "result" -> "completed"
    [] OTHER -> "pending"

toolStatus(state) ==
  CASE state = "call" -> "executing"
    [] state = "result" -> "completed"
    [] state = "partial-call" -> "pending"
    [] OTHER -> "failed"

createToolInfoCard(invocation) ==
  LET actualToolName == invocation.args.actual_tool_name IN
  [id |-> invocation.toolCallId,
   tool_name |-> IF Truthy(actualToolName) THEN actualToolName
                 ELSE JsStr(invocation.toolName),
   tool_description |-> IF Truthy(actualToolName) THEN "Backend tool execution"
                        ELSE invocation.toolName \o " tool call",
   tool_parameters |-> invocation.args,
   tool_status |-> toolStatus(invocation.state),
   tool_output |-> IF invocation.state = "result" THEN invocation.result
                   ELSE JsUndefined]

\* What messageParts.map renders for one part of an assistant message.
RenderPart(part) ==
  IF isTextPart(part) THEN "text"
  ELSE IF isToolInvocationPart(part)
          /\ part.toolName = FrontendToolNameMember("DISPLAY_TOOL_INFO")
  THEN "ToolInfoCard"
  ELSE IF isToolInvocationPart(part) /\ part.state = "result"
          /\ isChangeBackgroundColor(part)
  THEN "color-tool"
  ELSE IF isToolInvocationPart(part) /\ part.state = "result"
  THEN "frontend-tool"
  ELSE "null"

\* The rendered parts of a message, in sequence.
ChatMessage(message) ==
  IF message.role = "user" THEN <<"user">>
  ELSE [i \in DOMAIN message.parts |-> RenderPart(message.parts[i])]

\* formatToolName(name) returns '' for a falsy name and calls name.replace on
\* any other: a TypeError unless the name is a string.
formatToolNameThrows(name) == Truthy(name) /\ name.t # "string"

\* Rendering ToolInfoCard for a card throws.
ToolInfoCardThrows(tool) ==
  LET actualToolName == tool.tool_parameters.actual_tool_name IN
  formatToolNameThrows(IF Truthy(actualToolName) THEN actualToolName ELSE tool.tool_name)

\* Rendering the messages throws.
RenderThrows ==
  \E m \in DOMAIN messages :
    /\ messages[m].role = "assistant"
    /\ \E i \in DOMAIN messages[m].parts :
         /\ RenderPart(messages[m].parts[i]) = "ToolInfoCard"
         /\ ToolInfoCardThrows(createToolInfoCard(messages[m].parts[i]))

----------------------------------------------------------------------------
(* ui/app/lib/image-utils.ts *)

\* A URL string with what new URL(url) makes of it: whether it parses, and the
\* extension its pathname ends with.
Url(h, p, e) == [href |-> h, parses |-> p, ext |-> e]

ImageUrls ==
  { Url("", FALSE, ""),
    Url("not a url", FALSE, ""),
    Url("https://shop.example/a.png", TRUE, ".png"),
    Url("https://shop.example/B.JPG", TRUE, ".JPG"),
    Url("https://shop.example/page.html", TRUE, ".html") }

validImageExtensions == {".jpg", ".jpeg", ".png", ".gif", ".webp", ".svg"}

\* pathname.toLowerCase(), on the extension.
LowerExt(ext) == IF ext = ".JPG" THEN ".jpg" ELSE ext

isValidImageUrl(url) ==
  IF ~url.parses THEN FALSE
  ELSE LowerExt(url.ext) \in validImageExtensions

\* What preloadImage can do for a URL: onload, onerror, or an exception
\* thrown while the image is set up.
PreloadOutcomes == {"load", "error", "throw"}

ImageResult(v, l, e) == [isValid |-> v, isLoadable |-> l, error |-> e]

\* A validation that would report a failed preload without an error string.
validateImageUrlWithoutLoadError(url, outcome) ==
  IF url.href = ""
  THEN ImageResult(FALSE, FALSE, "No image URL provided")
  ELSE IF ~isValidImageUrl(url)
  THEN ImageResult(FALSE, FALSE, "Invalid image URL format")
  ELSE ImageResult(TRUE, outcome = "load", "undefined")

\* validateImageUrl(url), with the outcome of preloadImage where it is called.
validateImageUrl(url, outcome) ==
  IF url.href = ""
  THEN ImageResult(FALSE, FALSE, "No image URL provided")
  ELSE IF ~isValidImageUrl(url)
  THEN ImageResult(FALSE, FALSE, "Invalid image URL format")
  ELSE IF outcome = "throw"
  THEN ImageResult(TRUE, FALSE, "Error validating image URL")
  ELSE LET isLoadable == (outcome = "load") IN
       ImageResult(TRUE, isLoadable,
                   IF isLoadable THEN "undefined" ELSE "Image failed to load")

----------------------------------------------------------------------------
(* ui/app/components/ProductCard.tsx *)

MaxValidations == 2

ImageState(v, l, g, e) == [isValid |-> v, isLoadable |-> l, isLoading |-> g, error |-> e]

\* useState({isValid: false, isLoadable: false, isLoading: true})
InitialImageState == ImageState(FALSE, FALSE, TRUE, "undefined")

\* A validateImage call that awaits validateImageUrl(url).
Validation(u, d, r) == [url |-> u, resolved |-> d, result |-> r]

NoResult == ImageResult(FALSE, FALSE, "undefined")

\* validateImage as far as it runs before the browser handles another event:
\* all of it for an empty url and for a url whose format validateImageUrl
\* rejects (its promise is settled at once and the continuation follows in
\* the same turn), up to the await for a url that is preloaded.
validateImageStartState(prev, url) ==
  IF url.href = ""
  THEN ImageState(FALSE, FALSE, FALSE, "No image URL available")
  ELSE IF ~isValidImageUrl(url)
  THEN ImageState(validateImageUrl(url, "load").isValid,
                  validateImageUrl(url, "load").isLoadable,
                  FALSE,
                  validateImageUrl(url, "load").error)
  ELSE [prev EXCEPT !.isLoading = TRUE]

\* The calls left awaiting validateImageUrl, which awaits preloadImage.
validateImageStartCalls(calls, url) ==
  IF url.href = "" \/ ~isValidImageUrl(url) THEN calls
  ELSE Append(calls, Validation(url, FALSE, NoResult))

RemoveAt(q, i) == SubSeq(q, 1, i - 1) \o SubSeq(q, i + 1, Len(q))

\* What the image container shows.
ImageContainer ==
  IF imageState.isLoading THEN "spinner"
  ELSE IF imageState.isValid /\ imageState.isLoadable THEN "img"
  ELSE "error-text"

\* The text of the fallback container: imageState.error || 'No image available'.
ImageErrorText ==
  IF imageState.error \in {"undefined", ""} THEN "No image available"
  ELSE imageState.error

\* product.image_url changes and the effect of [product.image_url] runs.
ChangeImageUrl ==
  /\ Len(validations) < MaxValidations
  /\ \E url \in ImageUrls \ {image_url} :
       /\ image_url' = url
       /\ imageState' = validateImageStartState(imageState, url)
       /\ validations' = validateImageStartCalls(validations, url)
  /\ UNCHANGED <<genVars, srvVars, pageVars, sent, modalVars, cardVars>>

\* preloadImage ends and the promise of validateImageUrl settles for one of
\* the calls in flight.
ValidateImageUrlResolves ==
  /\ \E i \in DOMAIN validations :
       /\ ~validations[i].resolved
       /\ \E outcome \in PreloadOutcomes :
            validations' = [validations EXCEPT
                              ![i].resolved = TRUE,
                              ![i].result = validateImageUrl(validations[i].url, outcome)]
  /\ UNCHANGED <<genVars, srvVars, pageVars, sent, modalVars, cardVars, image_url, imageState>>

\* validateImage continues after its await: setImageState({...result, isLoading: false}).
ValidateImageContinues ==
  /\ \E i \in DOMAIN validations :
       /\ validations[i].resolved
       /\ imageState' = ImageState(validations[i].result.isValid,
                                   validations[i].result.isLoadable,
                                   FALSE,
                                   validations[i].result.error)
       /\ validations' = RemoveAt(validations, i)
  /\ UNCHANGED <<genVars, srvVars, pageVars, sent, modalVars, cardVars, image_url>>

\* The <img> element fires onError.
ImgOnError ==
  /\ ImageContainer = "img"
  /\ imageState' = [imageState EXCEPT !.isLoadable = FALSE, !.error = "Failed to load image"]
  /\ UNCHANGED <<genVars, srvVars, pageVars, sent, modalVars, cardVars, image_url, validations>>

----------------------------------------------------------------------------
(* ui/app/components/ConfirmationModal.tsx *)

MaxSent == 3

\* A choice of buttons that would take an empty declared list for none.
buttonsUnlessEmpty ==
  IF toolInvocation.args.defined /\ toolInvocation.args.list # <<>>
  THEN toolInvocation.args.list
  ELSE getDefaultConfirmationButtons

\* const buttons = args?.buttons || getDefaultConfirmationButtons()
buttons ==
  IF toolInvocation.args.defined
  THEN toolInvocation.args.list
  ELSE getDefaultConfirmationButtons

\* Argument payloads the component may be mounted with.
ModalArgs ==
  { NoButtons,
    ButtonsArg(TRUE, << Button("Yes", JsBool(TRUE), "primary"),
                        Button("No", JsBool(FALSE), "secondary"),
                        Button("None", JsNum(0), "danger") >>),
    ButtonsArg(TRUE, << Button("Red", JsStr("red"), "primary"),
                        Button("Others", JsStr("Others"), "secondary") >>),
    ButtonsArg(TRUE, << Button("Others", JsStr("custom"), "primary"),
                        Button("Never", JsStr("false"), "secondary"),
                        Button("Other", JsStr("OTHER"), "secondary") >>),
    ButtonsArg(TRUE, <<>>),
    ButtonsArg(TRUE, << Button("Broken", JsUndefined, "primary") >>) }

OtherTexts == {"", "  ", "blue"}

\* onConfirm / onCancel are the page's handleConfirm / handleCancel.
onConfirm(toolCallId, result) == handleConfirm(toolCallId, result)

onCancel(toolCallId, result) == handleCancel(toolCallId, result)

\* A handleButtonClick that would have no free-text branch.
handleButtonClickNoOther(value) ==
  IF value = JsBool(FALSE)
  THEN /\ onCancel(toolInvocation.toolCallId, value)
       /\ UNCHANGED <<selectedValue, threw>>
  ELSE /\ onConfirm(toolInvocation.toolCallId, value)
       /\ UNCHANGED <<selectedValue, threw>>

\* handleButtonClick(value): value.toString() of undefined is a TypeError.
handleButtonClick(value) ==
  IF value.t = "undefined"
  THEN /\ threw' = TRUE
       /\ UNCHANGED <<sent, selectedValue>>
  ELSE LET str_val == ToLowerString(value) IN
       IF str_val = "other" \/ str_val = "others"
       THEN /\ selectedValue' = "others"
            /\ UNCHANGED <<sent, threw>>
       ELSE IF value = JsBool(FALSE)
       THEN /\ onCancel(toolInvocation.toolCallId, value)
            /\ UNCHANGED <<selectedValue, threw>>
       ELSE /\ onConfirm(toolInvocation.toolCallId, value)
            /\ UNCHANGED <<selectedValue, threw>>

\* handleOtherSubmit
handleOtherSubmit ==
  IF Trim(otherText) # ""
  THEN onConfirm(toolInvocation.toolCallId, JsStr(otherText))
  ELSE UNCHANGED sent

\* A click on the i-th button.
ClickButton(i) ==
  /\ mounted
  /\ i \in DOMAIN buttons
  /\ Len(sent) < MaxSent
  /\ handleButtonClick(buttons[i].value)
  /\ UNCHANGED <<genVars, imgVars, srvVars, pageVars, cardVars, toolInvocation, mounted, otherText>>

ClickAnyButton == \E i \in 1..3 : ClickButton(i)

\* onChange of the free-text input, rendered when selectedValue is "others".
ChangeOtherText ==
  /\ mounted
  /\ selectedValue = "others"
  /\ \E text \in OtherTexts : otherText' = text
  /\ UNCHANGED <<genVars, imgVars, srvVars, pageVars, cardVars, sent, toolInvocation, mounted, selectedValue, threw>>

\* Enter in the free-text input.
PressEnter ==
  /\ mounted
  /\ selectedValue = "others"
  /\ Len(sent) < MaxSent
  /\ handleOtherSubmit
  /\ UNCHANGED <<genVars, imgVars, srvVars, pageVars, cardVars, toolInvocation, mounted, selectedValue, otherText, threw>>

\* A click on Submit, which is disabled while the trimmed text is empty.
ClickSubmit ==
  /\ mounted
  /\ selectedValue = "others"
  /\ Trim(otherText) # ""
  /\ Len(sent) < MaxSent
  /\ handleOtherSubmit
  /\ UNCHANGED <<genVars, imgVars, srvVars, pageVars, cardVars, toolInvocation, mounted, selectedValue, otherText, threw>>

----------------------------------------------------------------------------
(* server/start_server.sh (the version that looks at DOCKER_CONTAINER; with
   the variable empty it runs the steps of the version without the test) *)

DockerContainerValues == {"", "true"}

ScriptState(pc, d, g, e) == [pc |-> pc, DOCKER_CONTAINER |-> d, generated |-> g, exit |-> e]

\* [ $? -ne 0 ] after the generator step: the test the script never makes.
generatorFailedNever(exit) == FALSE

\* [ $? -ne 0 ] after the generator step.
generatorFailed(exit) == exit # 0

\* cd, then the virtual environment and the requirements unless in Docker.
ScriptSetup ==
  /\ script.pc = "not-started"
  /\ script' = [script EXCEPT !.pc = "generate"]
  /\ UNCHANGED <<genVars, pageVars, sent, modalVars, cardVars, imgVars>>

\* python generate_frontend_tools.py, which calls the generator script and
\* ends with its exit code; skipped when DOCKER_CONTAINER is not empty.
ScriptGenerate ==
  /\ script.pc = "generate"
  /\ IF script.DOCKER_CONTAINER = ""
     THEN /\ GeneratorEffect(tsFile)
          /\ script' = [script EXCEPT !.pc = "check", !.generated = TRUE,
                                      !.exit = GeneratorProcess(tsFile, pyFile).exit]
     ELSE /\ script' = [script EXCEPT !.pc = "start-server"]
          /\ UNCHANGED <<pyFile, lastExit, tsRead, pyBefore>>
  /\ UNCHANGED <<tsFile, lastAdded, handEdits, pageVars, sent, modalVars, cardVars, imgVars>>

\* if [ $? -ne 0 ]; then ... exit 1; fi
ScriptCheck ==
  /\ script.pc = "check"
  /\ script' = [script EXCEPT !.pc = IF generatorFailed(script.exit)
                                     THEN "exit-1" ELSE "start-server"]
  /\ UNCHANGED <<genVars, pageVars, sent, modalVars, cardVars, imgVars>>

\* uvicorn main:app --host 0.0.0.0 --port 8000 --reload
ScriptUvicorn ==
  /\ script.pc = "start-server"
  /\ script' = [script EXCEPT !.pc = "uvicorn"]
  /\ UNCHANGED <<genVars, pageVars, sent, modalVars, cardVars, imgVars>>

----------------------------------------------------------------------------
(* Specifications *)

InitGen ==
  /\ tsFile = CommittedTsFile
  /\ pyFile = NoPyFile
  /\ lastExit = -1
  /\ tsRead = NoTsFile
  /\ pyBefore = NoPyFile
  /\ lastAdded = ""
  /\ handEdits = 0

InitPage ==
  /\ messages = <<>>
  /\ status = "ready"
  /\ error = "null"
  /\ sent = <<>>

\* No ConfirmationModal is mounted.
InitNoModal ==
  /\ toolInvocation = ToolPart(0, "", "", NoButtons, JsUndefined)
  /\ mounted = FALSE
  /\ selectedValue = "null"
  /\ otherText = ""
  /\ threw = FALSE

\* A ConfirmationModal mounted with a tool invocation in state 'call'.
InitModal ==
  /\ toolInvocation \in {ToolPart(1, ConfirmationToolId, "call", a, JsUndefined) : a \in ModalArgs}
  /\ mounted = TRUE
  /\ selectedValue = "null"
  /\ otherText = ""
  /\ threw = FALSE

InitCards == toolInfoCards = <<>>

\* No ProductCard is mounted.
InitNoImage ==
  /\ image_url = Url("", FALSE, "")
  /\ imageState = InitialImageState
  /\ validations = <<>>

\* A ProductCard mounted with some image_url, its effect run once.
InitImage ==
  /\ image_url \in ImageUrls
  /\ imageState = validateImageStartState(InitialImageState, image_url)
  /\ validations = validateImageStartCalls(<<>>, image_url)

\* start_server.sh has not been started.
InitNoScript == script = ScriptState("not-started", "", FALSE, -1)

\* start_server.sh is started, in Docker or not.
InitScript ==
  script \in {ScriptState("not-started", d, FALSE, -1) : d \in DockerContainerValues}

InitRest == InitNoImage /\ InitNoScript

\* The catalogue files: generator, wizard, edits by hand.
Init == InitGen /\ InitPage /\ InitNoModal /\ InitCards /\ InitRest

Next ==
  \/ GeneratorRun
  \/ Wizard
  \/ HandAddTool
  \/ HandSwapGetAll
  \/ HandDeleteTs

Spec == Init /\ [][Next]_vars

\* The catalogue files, with schema functions renamed by hand as well.
NextRename ==
  \/ GeneratorRun
  \/ Wizard
  \/ HandAddTool
  \/ HandSwapGetAll
  \/ HandRenameFunc
  \/ HandDeleteTs

SpecRename == Init /\ [][NextRename]_vars

\* The page with the chat transport.
NextPage ==
  \/ HandleSubmit
  \/ ReceiveAssistantMessage
  \/ ReceivePart
  \/ ReceiveUpdate
  \/ FinishResponse
  \/ ChatError

SpecPage == Init /\ [][NextPage]_vars

\* The page that keeps tool info cards, with the chat transport.
NextCards ==
  \/ HandleSubmit
  \/ ReceiveAssistantMessage
  \/ ReceivePart
  \/ ReceiveUpdate
  \/ FinishResponse
  \/ ChatError
  \/ ProcessToolInvocations

SpecCards == Init /\ [][NextCards]_vars

\* The same page with a backend that may use a toolCallId more than once.
NextCardsUsedIds ==
  \/ HandleSubmit
  \/ ReceiveAssistantMessage
  \/ ReceivePart
  \/ ReceivePartWithUsedId
  \/ ReceiveUpdate
  \/ FinishResponse
  \/ ChatError
  \/ ProcessToolInvocations

SpecCardsUsedIds == Init /\ [][NextCardsUsedIds]_vars

\* The ConfirmationModal component mounted on its own.
InitModalSpec == InitGen /\ InitPage /\ InitModal /\ InitCards /\ InitRest

NextModal ==
  \/ ClickAnyButton
  \/ ChangeOtherText
  \/ PressEnter
  \/ ClickSubmit

SpecModal == InitModalSpec /\ [][NextModal]_vars

\* A ProductCard whose image_url prop changes while validations are in flight.
InitImageSpec ==
  InitGen /\ InitPage /\ InitNoModal /\ InitCards /\ InitImage /\ InitNoScript

NextImage ==
  \/ ChangeImageUrl
  \/ ValidateImageUrlResolves
  \/ ValidateImageContinues
  \/ ImgOnError

SpecImage == InitImageSpec /\ [][NextImage]_vars

\* start_server.sh, run once while the catalogue is edited by hand.
InitServerSpec ==
  InitGen /\ InitPage /\ InitNoModal /\ InitCards /\ InitNoImage /\ InitScript

NextServer ==
  \/ HandAddTool
  \/ HandSwapGetAll
  \/ HandDeleteTs
  \/ ScriptSetup
  \/ ScriptGenerate
  \/ ScriptCheck
  \/ ScriptUvicorn

SpecServer == InitServerSpec /\ [][NextServer]_vars

----------------------------------------------------------------------------
(* Properties of the generator and the wizard *)

\* Enum names declared in ts for which the generator pushes no schema function.
MissingSchemaIds(ts) ==
  {toolNames(ts)[i].name : i \in DOMAIN toolNames(ts)}
    \ {schemaFunctions(ts)[i].enumName : i \in DOMAIN schemaFunctions(ts)}

\* A generator run on ts cannot produce the whole catalogue.
CannotFullyProduce(ts) ==
  \/ ~ts.exists
  \/ ~ts.enumOk
  \/ ~ts.getAllOk
  \/ MissingSchemaIds(ts) # {}

\* Structural identity of two parameter trees: type at every node, required
\* sets, enum values in order, nested property keys, items.
RECURSIVE StructEq(_, _)
StructEq(a, b) ==
  /\ a.type = b.type
  /\ SeqToSet(a.required) = SeqToSet(b.required)
  /\ a.enum = b.enum
  /\ {a.properties[i].key : i \in DOMAIN a.properties}
       = {b.properties[i].key : i \in DOMAIN b.properties}
  /\ \A i \in DOMAIN a.properties, j \in DOMAIN b.properties :
       a.properties[i].key = b.properties[j].key
         => StructEq(a.properties[i].schema, b.properties[j].schema)
  /\ Len(a.items) = Len(b.items)
  /\ \A i \in DOMAIN a.items : StructEq(a.items[i], b.items[i])

\* C1 (stated as claimed): after a generator run that exited 0, every tool id
\* declared in the FrontendToolName enum it read has exactly one schema entry
\* in the generated file, and that entry carries the description the authoring
\* file gives for the id.
C1_TranslatorCompleteness ==
  lastExit = 0 =>
    \A i \in DOMAIN tsRead.enum :
      LET n == tsRead.enum[i].name
          entries == {j \in DOMAIN pyFile.defs : pyFile.defs[j].enumName = n}
      IN /\ Cardinality(entries) = 1
         /\ \A j \in entries :
              \E k \in DOMAIN tsRead.funcs :
                /\ tsRead.funcs[k].enumName = n
                /\ tsRead.funcs[k].description = pyFile.defs[j].description

\* C2 (stated as claimed): after a generator run that exited 0, the parameters
\* tree of every emitted entry is structurally identical to the parameters
\* tree of the authoring function the entry was generated from.
C2_ParametersIdentical ==
  lastExit = 0 =>
    \A i \in DOMAIN pyFile.defs :
      LET from == schemaFunctions(tsRead)[i].funcName
      IN StructEq(pyFile.defs[i].parameters,
                  tsRead.funcs[FuncDefIndex(tsRead, from)].parameters)

\* C3 (stated as claimed): a generator run that read a catalogue declaring an
\* id for which it finds no parameter schema does not exit 0.
C3_MissingSchemaFails ==
  (lastExit # -1 /\ MissingSchemaIds(tsRead) # {}) => lastExit # 0

\* C4 (stated as claimed): after a generator run that could not fully produce
\* the catalogue, frontend_tools.py is as it was before the run.
C4_FailureLeavesArtifact ==
  (lastExit # -1 /\ CannotFullyProduce(tsRead)) => pyFile = pyBefore

\* C5: a generator run that reads the same authoring file as the successful
\* run before it leaves the generated artifact's content as it was.
C5_Idempotent ==
  [][(lastExit = 0 /\ lastExit' = 0 /\ tsRead' = tsRead) => pyFile' = pyFile]_vars

\* C5 witness: a successful run has started from an artifact that an earlier
\* run had written, on the catalogue as it still is.
C5_Witness ==
  /\ lastExit = 0
  /\ pyBefore.exists
  /\ tsRead = tsFile
  /\ Len(pyFile.defs) > 0

\* Position of an accessor entry's tool in the generated enum, 0 if none.
EnumPos(entry) ==
  IF \E i \in DOMAIN pyFile.enum :
       "get_" \o toLowerCase(pyFile.enum[i].name) \o "_schema" = entry
  THEN CHOOSE i \in DOMAIN pyFile.enum :
         "get_" \o toLowerCase(pyFile.enum[i].name) \o "_schema" = entry
  ELSE 0

\* No tool is listed twice in get_all_frontend_tool_schemas.
AccessorDistinct ==
  \A i, j \in DOMAIN pyFile.accessor :
    i # j => pyFile.accessor[i] # pyFile.accessor[j]

EmittedCalls(ts) ==
  LET Emitted(call) ==
        /\ FuncDefIndex(ts, call) # 0
        /\ \E j \in DOMAIN pyFile.defs :
             pyFile.defs[j].enumName = ts.funcs[FuncDefIndex(ts, call)].enumName
  IN SelectSeq(ts.getAll, Emitted)

TsFuncIndex(ts, name) ==
  CHOOSE i \in DOMAIN ts.funcs :
    /\ ts.funcs[i].funcName = name
    /\ \A j \in (i + 1)..Len(ts.funcs) : ts.funcs[j].funcName # name

\* The ids of the descriptors getAllFrontendToolSchemas() returns.
TsCatalogueIds(ts) ==
  [i \in DOMAIN ts.getAll |->
     EnumValue(ts, ts.funcs[TsFuncIndex(ts, ts.getAll[i])].enumName)]

\* C7 (stated as claimed): no two descriptors returned by
\* getAllFrontendToolSchemas have the same id.
C7_NoDuplicateIds ==
  (tsFile.exists /\ tsFile.getAllOk) =>
    \A i, j \in DOMAIN tsFile.getAll :
      i # j => TsCatalogueIds(tsFile)[i] # TsCatalogueIds(tsFile)[j]

\* C8 (stated as claimed): once a new tool has been added and the generator
\* has run on the file holding it, the generated file holds the tool's enum
\* member and an entry for it in get_all_frontend_tool_schemas.
C8_NewToolGenerated ==
  (lastAdded # "" /\ lastExit = 0 /\ tsRead = tsFile
     /\ \E i \in DOMAIN tsFile.enum : tsFile.enum[i].name = lastAdded)
  => /\ \E i \in DOMAIN pyFile.enum : pyFile.enum[i].name = lastAdded
     /\ \E j \in DOMAIN pyFile.accessor :
          pyFile.accessor[j] = "get_" \o toLowerCase(lastAdded) \o "_schema"

----------------------------------------------------------------------------
(* Properties of the page and the confirmation prompt *)

SentFor(toolCallId) ==
  \E k \in DOMAIN sent : sent[k].toolCallId = toolCallId

\* C9: for every invocation of the confirmation tool in state 'call' in the
\* most recent assistant message the page displays a confirmation prompt, and
\* no result has been sent for its call id while it waits for a selection.
C9_ConfirmationPromptDisplayed ==
  \A i \in DOMAIN pendingToolInvocations :
    LET invocation == pendingToolInvocations[i] IN
    invocation.toolName = ConfirmationToolId =>
      /\ \E j \in DOMAIN RenderedModals :
           RenderedModals[j].toolCallId = invocation.toolCallId
      /\ ~SentFor(invocation.toolCallId)

IsLiteral(value) == value.t \in {"boolean", "string", "number"}

IsOtherValue(value) ==
  IsLiteral(value) /\ ToLowerString(value) \in {"other", "others"}

\* What the claim expects of a click on the i-th option: one result
\* {confirmed: v} for the call id, through cancel for false, confirm otherwise.
ClickSends(i) ==
  LET v == buttons[i].value IN
  sent' = Append(sent, SendEntry(toolInvocation.toolCallId, v,
                                 IF v = JsBool(FALSE) THEN "handleCancel"
                                                      ELSE "handleConfirm"))

\* C10 as stated: selecting an option with value v sends {confirmed: v} keyed
\* by the call id; false is routed as cancellation, every other literal as
\* confirmation, unchanged.
C10_SelectionSendsValue ==
  [][\A i \in 1..3 : (ClickButton(i) /\ IsLiteral(buttons[i].value)) => ClickSends(i)]_vars

\* C10 as the code has it: selecting an option whose literal value v does not
\* read "other" or "others" (ignoring case) sends {confirmed: v} keyed by the
\* call id, false through cancellation and every other such literal through
\* confirmation, unchanged; an option reading "other"/"others" sends nothing
\* and opens the free-text input.
C10_SelectionSendsValueUnlessOther ==
  [][\A i \in 1..3 :
       (ClickButton(i) /\ IsLiteral(buttons[i].value)) =>
         IF IsOtherValue(buttons[i].value)
         THEN sent' = sent /\ selectedValue' = "others"
         ELSE ClickSends(i)]_vars

\* Both routes taken: false cancelled, and the falsy literal 0 confirmed as 0.
C10_Witness ==
  /\ mounted
  /\ \E j \in DOMAIN sent :
       sent[j] = SendEntry(toolInvocation.toolCallId, JsBool(FALSE), "handleCancel")
  /\ \E k \in DOMAIN sent :
       sent[k] = SendEntry(toolInvocation.toolCallId, JsNum(0), "handleConfirm")

IsOtherLabel(label) == ToLowerString(JsStr(label)) \in {"other", "others"}

\* An explicit submit sends the entered text as typed, or nothing.
SubmitSendsText ==
  (PressEnter \/ ClickSubmit) =>
    sent' \in {sent, Append(sent, SendEntry(toolInvocation.toolCallId,
                                            JsStr(otherText), "handleConfirm"))}

C14_OptionsAreDeclaredOrDefault ==
  mounted =>
    IF toolInvocation.args.defined
    THEN buttons = toolInvocation.args.list
    ELSE /\ Len(buttons) = 2
         /\ buttons[1].label = "Confirm" /\ buttons[1].value = JsBool(TRUE)
         /\ buttons[2].label = "Cancel" /\ buttons[2].value = JsBool(FALSE)

\* C14 witness: a prompt without declared buttons, whose default Cancel option
\* has been selected.
C14_Witness ==
  /\ mounted
  /\ ~toolInvocation.args.defined
  /\ Len(sent) = 1
  /\ sent[1] = SendEntry(toolInvocation.toolCallId, JsBool(FALSE), "handleCancel")

----------------------------------------------------------------------------
(* Properties of the rendered messages *)

\* The tool ids of the client-side catalogue.
CatalogueIds == {FrontendToolName[i].value : i \in DOMAIN FrontendToolName}

\* C15: an invocation whose tool id is not in the client-side catalogue is
\* rendered, in every lifecycle state in which it is delivered: ChatMessage
\* renders something for its part, or the page renders a prompt for it.
C15_UnknownToolRendered ==
  \A m \in DOMAIN messages :
    messages[m].role = "assistant" =>
      \A i \in DOMAIN messages[m].parts :
        LET part == messages[m].parts[i] IN
        (isToolInvocationPart(part) /\ part.toolName \notin CatalogueIds) =>
          \/ ChatMessage(messages[m])[i] # "null"
          \/ \E j \in DOMAIN RenderedModals : RenderedModals[j] = part

DisplayToolId == "display_tool_info"

\* C16: for a display_tool_info invocation the client has made no send-result
\* call, and it offers none: the part is rendered as a tool card and never as
\* a prompt, the only element whose options call addToolResult.
C16_DisplayToolNeverSends ==
  \A m \in DOMAIN messages :
    \A i \in DOMAIN messages[m].parts :
      LET part == messages[m].parts[i] IN
      (isToolInvocationPart(part) /\ part.toolName = DisplayToolId) =>
        /\ ~SentFor(part.toolCallId)
        /\ \A j \in DOMAIN RenderedModals :
             RenderedModals[j].toolCallId # part.toolCallId
        /\ ChatMessage(messages[m])[i] = "ToolInfoCard"

\* C16 witness: a display_tool_info invocation in state 'call' is among the
\* pending invocations the page maps over.
C16_Witness ==
  \E j \in DOMAIN pendingToolInvocations :
    /\ pendingToolInvocations[j].toolName = DisplayToolId
    /\ RenderPart(pendingToolInvocations[j]) = "ToolInfoCard"

ColorToolId == "change_background_color"

\* ^#([A-Fa-f0-9]{6}|[A-Fa-f0-9]{3})$ on the color codes that occur.
MatchesHexColor(colorHexCode) == colorHexCode \in {"#FFC0CB", "#fff"}

\* C17: once the response has ended, every change_background_color invocation
\* in state 'call' whose colorHexCode is not a hex color has been answered by
\* the client with a result (success = false and an error message).
C17_InvalidColorRejected ==
  status = "ready" =>
    \A j \in DOMAIN pendingToolInvocations :
      LET invocation == pendingToolInvocations[j] IN
      (invocation.toolName = ColorToolId
         /\ ~MatchesHexColor(invocation.args.colorHexCode)) =>
        SentFor(invocation.toolCallId)

\* C18: whatever the argument payload of a delivered invocation, rendering it
\* and selecting a displayed option complete without an exception.
C18_MalformedArgsNeverThrow ==
  /\ ~RenderThrows
  /\ ~threw

----------------------------------------------------------------------------
(* Properties of the tool info cards *)

\* C19: delivering the same update twice leaves the tool cards and their
\* contents exactly as after delivering it once.
C19_DispatchIdempotent ==
  LET once == setToolInfoCards(toolInfoCards, allToolInvocations)
  IN setToolInfoCards(once, allToolInvocations) = once

\* C19 witness: the effect has run on the messages as they are, which carry
\* an invocation in state 'call', and its card is there.
C19_Witness ==
  /\ Len(allToolInvocations) > 0
  /\ toolInfoCards = setToolInfoCards(toolInfoCards, allToolInvocations)
  /\ \E k \in DOMAIN toolInfoCards : toolInfoCards[k].tool_status = "executing"

\* Every invocation of the messages has exactly one card, with the status and
\* the output of the invocation's own current state.
CardsReflectLatest ==
  \A m \in DOMAIN messages :
    \A i \in DOMAIN messages[m].parts :
      LET part == messages[m].parts[i] IN
      (messages[m].role = "assistant" /\ part.type = "tool-invocation") =>
        /\ Cardinality({k \in DOMAIN toolInfoCards :
                          toolInfoCards[k].id = part.toolCallId}) = 1
        /\ \A k \in DOMAIN toolInfoCards :
             toolInfoCards[k].id = part.toolCallId =>
               /\ toolInfoCards[k].tool_status = toolStatus(part.state)
               /\ toolInfoCards[k].tool_output =
                    (IF part.state = "result" THEN part.result ELSE JsUndefined)

\* C20: whenever the effect has processed the messages, the card of each
\* callId shows the status and output of the latest update delivered for that
\* callId, whatever was delivered for other callIds in between.
C20_CardsReflectLatest ==
  [][ProcessToolInvocations => CardsReflectLatest']_vars

\* C20 witness: two callIds at different lifecycle states, both cards current,
\* one of them updated after it was first created.
C20_Witness ==
  /\ CardsReflectLatest
  /\ \E j, k \in DOMAIN toolInfoCards :
       /\ toolInfoCards[j].id # toolInfoCards[k].id
       /\ toolInfoCards[j].tool_status = "completed"
       /\ toolInfoCards[k].tool_status = "executing"

----------------------------------------------------------------------------
(* Properties of the error display *)

\* {error && <div role="alert">...}: the banner of the page.
ErrorBanner == error # "null"

\* The controls the page and the ProductCard render with which a failed
\* request or image load can be tried again: there is none in either.
RetryControls == {}

\* C21: every failed chat request and every failed image load shows an error
\* indication together with a control to try again.
C21_FailureShowsErrorAndRetry ==
  /\ status = "error" => (ErrorBanner /\ RetryControls # {})
  /\ (ImageContainer = "error-text" /\ imageState.isValid) =>
       (ImageErrorText # "" /\ RetryControls # {})

----------------------------------------------------------------------------
(* Properties of start_server.sh *)

ServerStarting == script.pc \in {"start-server", "uvicorn"}

----------------------------------------------------------------------------
(* Properties of the input area *)

\* The last message is an assistant message with a tool invocation in state 'call'.
LastAssistantHasCall ==
  /\ Len(messages) > 0
  /\ messages[Len(messages)].role = "assistant"
  /\ \E i \in DOMAIN messages[Len(messages)].parts :
       /\ messages[Len(messages)].parts[i].type = "tool-invocation"
       /\ messages[Len(messages)].parts[i].state = "call"

----------------------------------------------------------------------------
(* Properties of the lifecycle status *)

\* The states of the transport and some values that are none of them.
TransportStates == {"partial-call", "call", "result", "error", ""}

ExpectedStatus(state) ==
  IF state = "partial-call" THEN "pending"
  ELSE IF state = "call" THEN "executing"
  ELSE IF state = "result" THEN "completed"
  ELSE "failed"

\* Both places that compute a status do it from the transport state alone,
\* by the mapping of the claim.
StatusIsFunctionOfState ==
  \A st \in TransportStates :
    \A name \in ToolNames :
      \A a \in PageArgs(name) :
        \A r \in {JsUndefined, JsStr("done")} :
          LET tool == ToolPart(1, name, st, a, r) IN
          /\ createToolInfoCard(tool).tool_status = ExpectedStatus(st)
          /\ ToolInfo(tool).tool_status = ExpectedStatus(st)

\* The status of every stored card is either the one the card had before the
\* step or the image of a state delivered for the card's invocation.
StatusChangesOnlyByUpdate ==
  \A k \in DOMAIN toolInfoCards' :
    \/ \E j \in DOMAIN toolInfoCards :
         /\ toolInfoCards[j].id = toolInfoCards'[k].id
         /\ toolInfoCards[j].tool_status = toolInfoCards'[k].tool_status
    \/ \E m \in DOMAIN messages :
         \E i \in DOMAIN messages[m].parts :
           /\ messages[m].parts[i].type = "tool-invocation"
           /\ messages[m].parts[i].toolCallId = toolInfoCards'[k].id
           /\ ExpectedStatus(messages[m].parts[i].state) = toolInfoCards'[k].tool_status

\* C24: the status shown for an invocation is a total function of its
\* transport state ('partial-call' pending, 'call' executing, 'result'
\* completed, anything else failed), and a status changes only to the image
\* of a delivered state.
C24_StatusFollowsTransportState ==
  [][StatusIsFunctionOfState /\ StatusChangesOnlyByUpdate]_vars

\* C24 witness: the stored card of an invocation whose result was delivered is
\* completed, and so is the card rendered for its part.
C24_Witness ==
  \E k \in DOMAIN toolInfoCards :
    /\ toolInfoCards[k].tool_status = "completed"
    /\ \E m \in DOMAIN messages :
         \E i \in DOMAIN messages[m].parts :
           /\ messages[m].parts[i].type = "tool-invocation"
           /\ messages[m].parts[i].toolCallId = toolInfoCards[k].id
           /\ createToolInfoCard(messages[m].parts[i]).tool_status = "completed"

----------------------------------------------------------------------------
(* Properties of the card output *)

OutputOnlyWhenCompleted(card) ==
  card.tool_output # JsUndefined => card.tool_status = "completed"

\* C25: a tool card carries an output only if its status is completed, for
\* the stored cards, the cards rendered from the parts, and the cards both
\* builders make of an invocation in any state with or without a result field.
C25_OutputOnlyWhenCompleted ==
  /\ \A k \in DOMAIN toolInfoCards : OutputOnlyWhenCompleted(toolInfoCards[k])
  /\ \A m \in DOMAIN messages :
       \A i \in DOMAIN messages[m].parts :
         messages[m].parts[i].type = "tool-invocation" =>
           OutputOnlyWhenCompleted(createToolInfoCard(messages[m].parts[i]))
  /\ \A st \in TransportStates :
       \A r \in {JsUndefined, JsStr("done")} :
         LET tool == ToolPart(1, DisplayToolId, st, NoButtons, r) IN
         /\ OutputOnlyWhenCompleted(createToolInfoCard(tool))
         /\ OutputOnlyWhenCompleted(ToolInfo(tool))

\* C25 witness: a stored card that carries an output, next to one that is
\* not completed and carries none.
C25_Witness ==
  \E j, k \in DOMAIN toolInfoCards :
    /\ toolInfoCards[j].tool_output # JsUndefined
    /\ toolInfoCards[j].tool_status = "completed"
    /\ toolInfoCards[k].tool_status # "completed"
    /\ toolInfoCards[k].tool_output = JsUndefined

----------------------------------------------------------------------------
(* Properties of the image validation *)

ResultConsistent(result) ==
  /\ result.isLoadable => result.isValid
  /\ (result.error # "undefined") <=> ~(result.isValid /\ result.isLoadable)

\* C26: every result of validateImageUrl has isLoadable only with isValid and
\* an error string exactly when the image is not both valid and loadable; an
\* empty URL, an invalid format, a failed load and a thrown preload all give
\* isLoadable = false with an error.
C26_ImageResultConsistent ==
  /\ \A i \in DOMAIN validations :
       validations[i].resolved => ResultConsistent(validations[i].result)
  /\ \A url \in ImageUrls :
       \A outcome \in PreloadOutcomes :
         LET result == validateImageUrl(url, outcome) IN
         /\ ResultConsistent(result)
         /\ (url.href = "" \/ ~isValidImageUrl(url) \/ outcome # "load") =>
              (~result.isLoadable /\ result.error \notin {"undefined", ""})

\* C26 witness: a validation in flight has settled for a well-formed image URL
\* whose preload failed or threw.
C26_Witness ==
  \E i \in DOMAIN validations :
    /\ validations[i].resolved
    /\ validations[i].result.isValid
    /\ ~validations[i].result.isLoadable
    /\ validations[i].result.error \in {"Image failed to load", "Error validating image URL"}

----------------------------------------------------------------------------
(* Properties of the disabled input *)

\* C27: whenever the input is disabled because the last assistant message
\* holds an invocation in state 'call', a prompt with at least one selectable
\* option is displayed for such an invocation.
C27_NoStuckInput ==
  LET Options(invocation) ==
        IF invocation.args.defined THEN invocation.args.list
        ELSE getDefaultConfirmationButtons
  IN (status = "ready" /\ Len(pendingToolInvocations) > 0) =>
       \E k \in DOMAIN RenderedModals : Len(Options(RenderedModals[k])) > 0

----------------------------------------------------------------------------
(* Properties of the stored cards under repeated ids *)

\* C28: the toolInfoCards list holds at most one card per tool call id, also
\* when the messages hold the same toolCallId in more than one part.
C28_OneCardPerId ==
  \A j, k \in DOMAIN toolInfoCards :
    toolInfoCards[j].id = toolInfoCards[k].id => j = k

----------------------------------------------------------------------------
(* Properties of the ProductCard image state *)

\* The image states that validating the url, by any preload outcome, ends
\* in, and the one the <img> element's onError makes of a loaded image.
ImageStatesOf(url) ==
  IF url.href = ""
  THEN {ImageState(FALSE, FALSE, FALSE, "No image URL available")}
  ELSE {ImageState(validateImageUrl(url, outcome).isValid,
                   validateImageUrl(url, outcome).isLoadable,
                   FALSE,
                   validateImageUrl(url, outcome).error) : outcome \in PreloadOutcomes}
       \cup (IF isValidImageUrl(url)
             THEN {ImageState(TRUE, FALSE, FALSE, "Failed to load image")}
             ELSE {})

\* C29: once every validation in flight has completed, the image state of the
\* card is the result of validating the current image_url, in whatever order
\* the validations completed.
C29_NoStaleImageState ==
  validations = <<>> => imageState \in ImageStatesOf(image_url)

----------------------------------------------------------------------------
(* Properties of the names in the generated artifact *)

\* C30: in every artifact the generator writes, each function called inside
\* get_all_frontend_tool_schemas is defined in the same artifact.
C30_AccessorCallsDefined ==
  (lastExit = 0 /\ pyFile.exists) =>
    \A i \in DOMAIN pyFile.accessor :
      \E j \in DOMAIN pyFile.defs : pyFile.defs[j].defName = pyFile.accessor[i]

====
